---- MODULE Spec2Model ----
(***************************************************************************)
(* GSLBHandler (src/lib/gslbHandler.js): the GSLB part of a declaration is *)
(* turned into remote operations on a BIG-IP.  process() first issues the  *)
(* globals modify, then the monitor upserts (createOrModify), then builds  *)
(* the data-center, server and prober-pool commands and submits them as    *)
(* one transaction.                                                        *)
(*                                                                         *)
(* JavaScript objects are records; a property that is absent is a field    *)
(* that is not in the record's DOMAIN.  An object's keys in insertion      *)
(* order (Object.keys) are a sequence.  A promise continuation that does   *)
(* not wait for a remote answer runs in the same step as the event that    *)
(* releases it (microtasks run to completion before the next I/O event).   *)
(***************************************************************************)
EXTENDS Integers, Sequences, FiniteSets, TLC

VARIABLES
    declaration,    \* this.declaration: sequence of tenant entries (Object.keys order)
    currentConfig,  \* this.state.currentConfig: tenant -> class -> names present
    pc,             \* where process() is: start, globals, monitors, tx, done
    result,         \* the promise returned by process()
    globalsOp,      \* the bigIp.modify of the general settings
    monitorOps,     \* the bigIp.createOrModify calls, in the order issued
    txOp,           \* the bigIp.transaction call
    calls,          \* every remote operation issued in this run, in order
    rejections,     \* errors of the remote operations that rejected, in order
    produced,       \* the commands the three entity passes returned in this run
    declaration0,   \* the declaration as it was when process() was called
    currentConfig0, \* the snapshot as it was when process() was called
    cycle,          \* number of the reconciliation cycle (1 = first run)
    prevProduced    \* the commands produced by the previous cycle

vars == <<declaration, currentConfig, pc, result, globalsOp, monitorOps, txOp,
          calls, rejections, produced, declaration0, currentConfig0, cycle,
          prevProduced>>

(***************************************************************************)
(* Bounds of the model.                                                    *)
(***************************************************************************)
MaxEntities == 2   \* entities of one class in a declaration
MaxMonitors == 2   \* GSLB monitors in a declaration
MaxDevices == 2    \* devices of a server
MaxChildren == 1   \* virtual servers of a server, members of a prober pool

(***************************************************************************)
(* JavaScript values.                                                      *)
(***************************************************************************)
Undef == "undefined"

\* o[k], undefined when the property is absent
Get(o, k) == IF k \in DOMAIN o THEN o[k] ELSE Undef

\* o[k] || 'none' for a string property: undefined and '' are falsy
OrNone(o, k) == IF k \in DOMAIN o /\ o[k] # "" /\ o[k] # Undef THEN o[k] ELSE "none"

\* o[k] ? yes : no for a boolean property
Flag(o, k, yes, no) == IF k \in DOMAIN o /\ o[k] = TRUE THEN yes ELSE no

\* !o[k] for a boolean property
Not(o, k) == IF k \in DOMAIN o THEN ~o[k] ELSE TRUE

\* a truthy name
HasName(o) == "name" \in DOMAIN o /\ o["name"] # "" /\ o["name"] # Undef

RECURSIVE Join(_, _)
\* Array.prototype.join
Join(list, sep) ==
    IF list = <<>> THEN ""
    ELSE IF Len(list) = 1 THEN list[1]
    ELSE list[1] \o sep \o Join(Tail(list), sep)

RECURSIVE Concat(_)
\* [..].reduce((array, commands) => array.concat(commands), [])
Concat(lists) ==
    IF lists = <<>> THEN <<>> ELSE Head(lists) \o Concat(Tail(lists))

(***************************************************************************)
(* sharedConstants.PATHS                                                   *)
(***************************************************************************)
PATHS_GSLBGeneral == "/tm/gtm/global-settings/general"
PATHS_GSLBDataCenter == "/tm/gtm/datacenter"
PATHS_GSLBMonitor == "/tm/gtm/monitor"
PATHS_GSLBServer == "/tm/gtm/server"
PATHS_GSLBProberPool == "/tm/gtm/prober-pool"

(***************************************************************************)
(* doUtil.forEach(declaration, classKey, callback): the (tenant, object)   *)
(* pairs the callback is called with, tenants in key order and, within a   *)
(* tenant, the objects of the class in key order.                          *)
(***************************************************************************)
RECURSIVE forEach(_, _)
forEach(decl, classKey) ==
    IF decl = <<>> THEN <<>>
    ELSE LET t == Head(decl)
             objs == IF classKey \in DOMAIN t.classes THEN t.classes[classKey] ELSE <<>>
         IN  [i \in 1..Len(objs) |-> [tenant |-> t.tenant, object |-> objs[i]]]
             \o forEach(Tail(decl), classKey)

\* declaration.Common is truthy
HasCommon(decl) == \E i \in 1..Len(decl) : decl[i].tenant = "Common"

\* declaration.Common
Common(decl) == decl[CHOOSE i \in 1..Len(decl) : decl[i].tenant = "Common"].classes

\* the (tenant, object) pairs whose object passes the callback's guard on
\* its name, in order
RECURSIVE Named(_)
Named(items) ==
    IF items = <<>> THEN <<>>
    ELSE (IF HasName(Head(items).object) THEN <<Head(items)>> ELSE <<>>)
         \o Named(Tail(items))

(***************************************************************************)
(* handleGSLBGlobals: the bigIp.modify calls it pushes (none or one).      *)
(***************************************************************************)
\* the body with the two synchronization literals exchanged
GeneralBodyInverted(gslbGeneral) ==
    [synchronization |-> Flag(gslbGeneral, "synchronizationEnabled", "no", "yes"),
     synchronizationGroupName |-> Get(gslbGeneral, "synchronizationGroupName"),
     synchronizationTimeTolerance |-> Get(gslbGeneral, "synchronizationTimeTolerance"),
     synchronizationTimeout |-> Get(gslbGeneral, "synchronizationTimeout")]

GeneralBody(gslbGeneral) ==
    [synchronization |-> Flag(gslbGeneral, "synchronizationEnabled", "yes", "no"),
     synchronizationGroupName |-> Get(gslbGeneral, "synchronizationGroupName"),
     synchronizationTimeTolerance |-> Get(gslbGeneral, "synchronizationTimeTolerance"),
     synchronizationTimeout |-> Get(gslbGeneral, "synchronizationTimeout")]

handleGSLBGlobals(decl) ==
    LET common == Common(decl) IN
    IF "GSLBGlobals" \notin DOMAIN common THEN <<>>
    ELSE IF "general" \notin DOMAIN common["GSLBGlobals"] THEN <<>>
    ELSE <<[op |-> "modify", path |-> PATHS_GSLBGeneral,
            body |-> GeneralBody(common["GSLBGlobals"]["general"])]>>

(***************************************************************************)
(* The existence check of the three entity passes and the command built    *)
(* from its outcome.                                                       *)
(***************************************************************************)
Method(cfg, classKey, tenant, name) ==
    IF classKey \in DOMAIN cfg["Common"] /\ name \in cfg["Common"][classKey]
    THEN "modify" ELSE "create"

Path(method, collection, tenant, name) ==
    IF method = "create" THEN collection
    ELSE collection \o "/~" \o tenant \o "~" \o name

Command(cfg, classKey, collection, tenant, name, body) ==
    LET method == Method(cfg, classKey, tenant, name) IN
    [method |-> method, path |-> Path(method, collection, tenant, name), body |-> body]

(***************************************************************************)
(* handleGSLBDataCenter                                                    *)
(***************************************************************************)
DataCenterBody(tenant, dataCenter) ==
    LET body == [name |-> dataCenter["name"],
                 partition |-> tenant,
                 contact |-> Get(dataCenter, "contact"),
                 enabled |-> Get(dataCenter, "enabled"),
                 location |-> Get(dataCenter, "location"),
                 proberFallback |-> Get(dataCenter, "proberFallback"),
                 proberPreference |-> Get(dataCenter, "proberPreferred")]
    IN  IF "proberPool" \in DOMAIN dataCenter /\ dataCenter["proberPool"] # ""
        THEN body @@ [proberPool |-> dataCenter["proberPool"]]
        ELSE body

DataCenterCommand(cfg, item) ==
    Command(cfg, "GSLBDataCenter", PATHS_GSLBDataCenter, item.tenant,
            item.object["name"], DataCenterBody(item.tenant, item.object))

handleGSLBDataCenter(decl, cfg) ==
    LET items == Named(forEach(decl, "GSLBDataCenter"))
    IN  [i \in 1..Len(items) |-> DataCenterCommand(cfg, items[i])]

(***************************************************************************)
(* handleGSLBMonitor: the bigIp.createOrModify calls it pushes.            *)
(***************************************************************************)
MonitorBody(monitor) ==
    LET type == Get(monitor, "monitorType")
        body == [name |-> monitor["name"],
                 description |-> OrNone(monitor, "remark"),
                 destination |-> Get(monitor, "target"),
                 interval |-> Get(monitor, "interval"),
                 timeout |-> Get(monitor, "timeout"),
                 probeTimeout |-> Get(monitor, "probeTimeout"),
                 ignoreDownResponse |->
                     Flag(monitor, "ignoreDownResponseEnabled", "enabled", "disabled"),
                 transparent |-> Flag(monitor, "transparent", "enabled", "disabled")]
        notIcmp == IF type # "gateway-icmp"
                   THEN [reverse |-> Flag(monitor, "reverseEnabled", "enabled", "disabled"),
                         send |-> OrNone(monitor, "send"),
                         recv |-> OrNone(monitor, "receive")]
                   ELSE <<>>
        https == IF type = "https"
                 THEN [cipherlist |-> OrNone(monitor, "ciphers"),
                       cert |-> OrNone(monitor, "clientCertificate")]
                 ELSE <<>>
        probes == IF type = "gateway-icmp" \/ type = "udp"
                  THEN [probeInterval |-> Get(monitor, "probeInterval"),
                        probeAttempts |-> Get(monitor, "probeAttempts")]
                  ELSE <<>>
        udp == IF type = "udp"
               THEN [debug |-> Flag(monitor, "debugEnabled", "yes", "no")]
               ELSE <<>>
    IN  body @@ notIcmp @@ https @@ probes @@ udp

MonitorCall(item) ==
    [op |-> "createOrModify",
     path |-> PATHS_GSLBMonitor \o "/" \o Get(item.object, "monitorType"),
     body |-> MonitorBody(item.object)]

\* the pass that stops after the first upsert
handleGSLBMonitorFirstOnly(decl) ==
    LET items == Named(forEach(decl, "GSLBMonitor"))
        upserts == [i \in 1..Len(items) |-> MonitorCall(items[i])]
    IN  IF upserts = <<>> THEN <<>> ELSE <<Head(upserts)>>

handleGSLBMonitor(decl) ==
    LET items == Named(forEach(decl, "GSLBMonitor"))
    IN  [i \in 1..Len(items) |-> MonitorCall(items[i])]

(***************************************************************************)
(* handleGSLBServer.  body.devices is the declared server.devices array    *)
(* itself, and the loop over body.devices rewrites its elements in place:  *)
(* the pass changes the declaration as well as the body.                   *)
(***************************************************************************)
mapMonitors(server) ==
    IF "monitors" \in DOMAIN server /\ Len(server["monitors"]) > 0
    THEN Join(server["monitors"], " and ")
    ELSE ""

\* address.indexOf(':') > -1, the address being a sequence of characters
HasColon(address) == \E i \in 1..Len(address) : address[i] = ":"

Destination(vs) ==
    vs["address"] \o <<IF HasColon(vs["address"]) THEN "." ELSE ":">>
                  \o <<ToString(vs["port"])>>

VirtualServerBody(vs) ==
    [name |-> Get(vs, "name"),
     description |-> OrNone(vs, "remark"),
     destination |-> Destination(vs),
     enabled |-> Get(vs, "enabled"),
     disabled |-> Not(vs, "enabled"),
     translationAddress |-> OrNone(vs, "addressTranslation"),
     translationPort |-> Get(vs, "addressTranslationPort"),
     monitor |-> mapMonitors(vs)]

\* device.description = device.remark || 'none'; delete device.remark
RewriteDevice(device) ==
    [k \in (DOMAIN device \ {"remark"}) \cup {"description"} |->
        IF k = "description" THEN OrNone(device, "remark") ELSE device[k]]

\* body.devices.forEach(...)
RewriteDevices(devices) == [i \in 1..Len(devices) |-> RewriteDevice(devices[i])]

ServerBody(server) ==
    [name |-> server["name"],
     description |-> OrNone(server, "remark"),
     enabled |-> Get(server, "enabled"),
     disabled |-> Not(server, "enabled"),
     product |-> Get(server, "serverType"),
     proberPreference |-> Get(server, "proberPreferred"),
     proberFallback |-> Get(server, "proberFallback"),
     proberPool |-> OrNone(server, "proberPool"),
     limitMaxBps |-> Get(server, "bpsLimit"),
     limitMaxBpsStatus |-> Flag(server, "bpsLimitEnabled", "enabled", "disabled"),
     limitMaxPps |-> Get(server, "ppsLimit"),
     limitMaxPpsStatus |-> Flag(server, "ppsLimitEnabled", "enabled", "disabled"),
     limitMaxConnections |-> Get(server, "connectionsLimit"),
     limitMaxConnectionsStatus |->
         Flag(server, "connectionsLimitEnabled", "enabled", "disabled"),
     limitCpuUsage |-> Get(server, "cpuUsageLimit"),
     limitCpuUsageStatus |-> Flag(server, "cpuUsageLimitEnabled", "enabled", "disabled"),
     limitMemAvail |-> Get(server, "memoryLimit"),
     limitMemAvailStatus |-> Flag(server, "memoryLimitEnabled", "enabled", "disabled"),
     iqAllowServiceCheck |-> Flag(server, "serviceCheckProbeEnabled", "yes", "no"),
     iqAllowPath |-> Flag(server, "pathProbeEnabled", "yes", "no"),
     iqAllowSnmp |-> Flag(server, "snmpProbeEnabled", "yes", "no"),
     datacenter |-> Get(server, "dataCenter"),
     devices |-> RewriteDevices(server["devices"]),
     exposeRouteDomains |-> Flag(server, "exposeRouteDomainsEnabled", "yes", "no"),
     virtualServerDiscovery |-> Get(server, "virtualServerDiscoveryMode"),
     monitor |-> mapMonitors(server),
     virtualServers |-> [i \in 1..Len(server["virtualServers"]) |->
                           VirtualServerBody(server["virtualServers"][i])]]

ServerCommand(cfg, item) ==
    Command(cfg, "GSLBServer", PATHS_GSLBServer, item.tenant,
            item.object["name"], ServerBody(item.object))

handleGSLBServer(decl, cfg) ==
    LET items == Named(forEach(decl, "GSLBServer"))
    IN  [i \in 1..Len(items) |-> ServerCommand(cfg, items[i])]

\* a declared server once handleGSLBServer has visited it
ServerAfter(server) ==
    IF HasName(server)
    THEN [server EXCEPT !["devices"] = RewriteDevices(server["devices"])]
    ELSE server

\* the declaration once handleGSLBServer has returned
DeclarationAfterServers(decl) ==
    [i \in 1..Len(decl) |->
        IF "GSLBServer" \in DOMAIN decl[i].classes
        THEN [decl[i] EXCEPT !.classes["GSLBServer"] =
                 [j \in 1..Len(decl[i].classes["GSLBServer"]) |->
                     ServerAfter(decl[i].classes["GSLBServer"][j])]]
        ELSE decl[i]]

(***************************************************************************)
(* handleGSLBProberPool                                                    *)
(***************************************************************************)
MemberBody(member) ==
    [name |-> Get(member, "server"),
     description |-> OrNone(member, "remark"),
     enabled |-> Get(member, "enabled"),
     disabled |-> Not(member, "enabled"),
     order |-> Get(member, "order")]

ProberPoolBody(proberPool) ==
    [name |-> proberPool["name"],
     description |-> OrNone(proberPool, "remark"),
     enabled |-> Get(proberPool, "enabled"),
     disabled |-> Not(proberPool, "enabled"),
     loadBalancingMode |-> Get(proberPool, "lbMode"),
     members |-> [i \in 1..Len(proberPool["members"]) |->
                    MemberBody(proberPool["members"][i])]]

ProberPoolCommand(cfg, item) ==
    Command(cfg, "GSLBProberPool", PATHS_GSLBProberPool, item.tenant,
            item.object["name"], ProberPoolBody(item.object))

handleGSLBProberPool(decl, cfg) ==
    LET items == Named(forEach(decl, "GSLBProberPool"))
    IN  [i \in 1..Len(items) |-> ProberPoolCommand(cfg, items[i])]

(***************************************************************************)
(* The transactionCommands of process(): the results of the three passes  *)
(* in the order of the array literal, flattened by reduce/concat.          *)
(***************************************************************************)
\* the array literal with the server pass ahead of the data-center pass
EntityPassesServersFirst(decl, cfg) ==
    <<handleGSLBServer(decl, cfg),
      handleGSLBDataCenter(decl, cfg),
      handleGSLBProberPool(DeclarationAfterServers(decl), cfg)>>

EntityPasses(decl, cfg) ==
    <<handleGSLBDataCenter(decl, cfg),
      handleGSLBServer(decl, cfg),
      handleGSLBProberPool(DeclarationAfterServers(decl), cfg)>>

\* the flattening that loses the last pass
transactionCommandsWithoutPools(passes) == Concat(SubSeq(passes, 1, 2))

transactionCommands(passes) == Concat(passes)

(***************************************************************************)
(* The declarations and snapshots process() is run on.  Optional array     *)
(* properties (virtualServers, members) carry the schema's default [] and  *)
(* devices is required by the schema, so the passes never read a property  *)
(* of undefined.                                                           *)
(***************************************************************************)
Tenants == {"Common", "T1"}
ClassKeys == {"GSLBDataCenter", "GSLBServer", "GSLBProberPool"}
EntityNames == <<"e1", "e2", "e3", "e4">>
MonitorNames == <<"m1", "m2", "m3", "m4">>
Errors == {"err1", "err2"}

\* an object with or without a remark: absent, empty, or a text
WithRemark(o) == {o, o @@ [remark |-> ""], o @@ [remark |-> "text"]}

\* all sequences over S of a length in lo..hi
SeqsOf(S, lo, hi) == UNION {[1..n -> S] : n \in lo..hi}

DataCenter(name) ==
    [name |-> name, enabled |-> TRUE, contact |-> "ops", location |-> "site",
     proberFallback |-> "any-available", proberPreferred |-> "inside-datacenter"]

Device(n) == [name |-> "dev" \o ToString(n), address |-> "10.0.0." \o ToString(n)]

VirtualServer ==
    [name |-> "vs", address |-> <<"1", ".", "2">>, port |-> 80, enabled |-> TRUE,
     addressTranslationPort |-> 0, monitors |-> <<>>]

VirtualServer6 ==
    [name |-> "vs6", address |-> <<"f", ":", ":", "1">>, port |-> 443, enabled |-> FALSE,
     addressTranslation |-> "10.1.1.1", addressTranslationPort |-> 8443,
     monitors |-> <<"/Common/http">>]

Server(name, devices, virtualServers) ==
    [name |-> name, enabled |-> TRUE, serverType |-> "bigip",
     proberPreferred |-> "inherit", proberFallback |-> "inherit",
     bpsLimit |-> 0, bpsLimitEnabled |-> FALSE, ppsLimit |-> 0, ppsLimitEnabled |-> FALSE,
     connectionsLimit |-> 0, connectionsLimitEnabled |-> FALSE,
     cpuUsageLimit |-> 0, cpuUsageLimitEnabled |-> TRUE,
     memoryLimit |-> 0, memoryLimitEnabled |-> FALSE,
     serviceCheckProbeEnabled |-> TRUE, pathProbeEnabled |-> TRUE,
     snmpProbeEnabled |-> FALSE, dataCenter |-> "/Common/e1",
     devices |-> devices, exposeRouteDomainsEnabled |-> FALSE,
     virtualServerDiscoveryMode |-> "disabled",
     monitors |-> <<"/Common/http", "/Common/tcp">>,
     virtualServers |-> virtualServers]

Member == [server |-> "/Common/e1", enabled |-> TRUE, order |-> 0]

ProberPool(name, members) ==
    [name |-> name, enabled |-> TRUE, lbMode |-> "global-availability",
     members |-> members]

Monitor(name, type) ==
    [name |-> name, monitorType |-> type, target |-> "*:*", interval |-> 30,
     timeout |-> 120, probeTimeout |-> 5, ignoreDownResponseEnabled |-> FALSE,
     transparent |-> TRUE, reverseEnabled |-> FALSE, probeInterval |-> 1,
     probeAttempts |-> 3, debugEnabled |-> TRUE]

\* the entity of a class with the attributes left at their plain values
Plain(classKey, name) ==
    CASE classKey = "GSLBDataCenter" -> DataCenter(name)
      [] classKey = "GSLBServer" -> Server(name, <<Device(1)>>, <<>>)
      [] classKey = "GSLBProberPool" -> ProberPool(name, <<>>)

\* removes the name of an object
Nameless(o) == [k \in DOMAIN o \ {"name"} |-> o[k]]

\* the GSLBGlobals entries of Common: absent, without general, or with general
GlobalsChoices ==
    {<<>>,
     [GSLBGlobals |-> [other |-> TRUE]],
     [GSLBGlobals |-> [general |-> [synchronizationGroupName |-> "default"]]],
     [GSLBGlobals |-> [general |-> [synchronizationEnabled |-> TRUE,
                                    synchronizationGroupName |-> "grp",
                                    synchronizationTimeTolerance |-> 20,
                                    synchronizationTimeout |-> 80]]],
     [GSLBGlobals |-> [general |-> [synchronizationEnabled |-> FALSE,
                                    synchronizationTimeout |-> 180]]]}

\* what one declared monitor may be: its tenant and the object less its name
MonitorChoices ==
    {[tenant |-> "Common", type |-> "http", remark |-> Undef, named |-> TRUE],
     [tenant |-> "Common", type |-> "https", remark |-> "text", named |-> TRUE],
     [tenant |-> "Common", type |-> "gateway-icmp", remark |-> "", named |-> TRUE],
     [tenant |-> "T1", type |-> "udp", remark |-> Undef, named |-> TRUE],
     [tenant |-> "Common", type |-> "tcp", remark |-> "text", named |-> FALSE]}

MonitorOf(choice, i) ==
    LET m == Monitor(MonitorNames[i], choice.type)
        r == IF choice.remark = Undef THEN m ELSE m @@ [remark |-> choice.remark]
    IN  [tenant |-> choice.tenant, object |-> IF choice.named THEN r ELSE Nameless(r)]

\* the objects of a class placed under a tenant, in order
RECURSIVE PlacedUnder(_, _, _)
PlacedUnder(placed, tenant, classKey) ==
    IF placed = <<>> THEN <<>>
    ELSE (IF Head(placed).tenant = tenant /\ Head(placed).classKey = classKey
          THEN <<Head(placed).object>> ELSE <<>>)
         \o PlacedUnder(Tail(placed), tenant, classKey)

\* a tenant entry of the declaration: the objects placed under the tenant
TenantEntry(tenant, placed, globals) ==
    LET classes == [k \in ClassKeys \cup {"GSLBMonitor"} |->
                       PlacedUnder(placed, tenant, k)]
    IN  [tenant |-> tenant,
         classes |-> IF tenant = "Common" THEN classes @@ globals ELSE classes]

\* the declaration with the tenants in the given key order
Declaration(order, placed, globals) ==
    [i \in 1..Len(order) |-> TenantEntry(order[i], placed, globals)]

EmptySnapshot == [t \in Tenants |-> [k \in ClassKeys |-> {}]]

\* a placed object
Placed(classKey, tenant, object) ==
    [classKey |-> classKey, tenant |-> tenant, object |-> object]

\* one plain entity of each class under Common
OneOfEach == <<Placed("GSLBDataCenter", "Common", Plain("GSLBDataCenter", "e1")),
               Placed("GSLBServer", "Common", Plain("GSLBServer", "e1")),
               Placed("GSLBProberPool", "Common", Plain("GSLBProberPool", "e1"))>>

\* Entities of one class, varied in number and tenant, attributes plain
EntityLists(classKey) ==
    {[i \in 1..Len(ts) |-> Placed(classKey, ts[i], Plain(classKey, EntityNames[i]))] :
        ts \in SeqsOf(Tenants, 0, MaxEntities)}

\* Entities of one class, varied in number, all under one tenant
UniformLists(classKey) ==
    {[i \in 1..n |-> Placed(classKey, t, Plain(classKey, EntityNames[i]))] :
        n \in 0..MaxEntities, t \in Tenants}

\* the snapshots: the first name of some classes present under Common
StructSnapshots ==
    {[t \in Tenants |-> [k \in ClassKeys |->
         IF t = "Common" /\ k \in present THEN {EntityNames[1]} ELSE {}]] :
        present \in {{}, {"GSLBDataCenter"}, {"GSLBServer", "GSLBProberPool"}, ClassKeys}}

\* one entity of a class under Common with its children, attributes varied
ServerChoices ==
    {Server("e1", devices, virtualServers) @@ r :
        devices \in SeqsOf(WithRemark(Device(1)), 1, MaxDevices),
        virtualServers \in SeqsOf(WithRemark(VirtualServer) \cup {VirtualServer6},
                                  0, MaxChildren),
        r \in {<<>>, [remark |-> "text"]}}
    \cup {Nameless(Plain("GSLBServer", "e1"))}

DataCenterChoices ==
    {DataCenter("e1"), DataCenter("e1") @@ [remark |-> "text"],
     DataCenter("e1") @@ [proberPool |-> "/Common/e1"], Nameless(DataCenter("e1"))}

ProberPoolChoices ==
    {ProberPool("e1", members) @@ r :
        members \in SeqsOf(WithRemark(Member), 0, MaxChildren),
        r \in {<<>>, [remark |-> ""], [remark |-> "text"]}}
    \cup {Nameless(ProberPool("e1", <<>>))}

\* Leaf settings varied: globals and monitors, with or without entities
InitLeaf ==
    \E ms \in SeqsOf(MonitorChoices, 0, MaxMonitors), g \in GlobalsChoices,
       rest \in {<<>>, OneOfEach} :
        /\ declaration =
               Declaration(<<"Common", "T1">>,
                           [i \in 1..Len(ms) |->
                               LET m == MonitorOf(ms[i], i)
                               IN  Placed("GSLBMonitor", m.tenant, m.object)] \o rest,
                           g)
        /\ currentConfig = EmptySnapshot

\* Entities varied in number, tenant and presence in the snapshot
InitStruct ==
    \E order \in {<<"Common", "T1">>, <<"T1", "Common">>},
       dcs \in EntityLists("GSLBDataCenter"),
       servers \in EntityLists("GSLBServer"),
       pools \in UniformLists("GSLBProberPool") :
        /\ declaration = Declaration(order, dcs \o servers \o pools, <<>>)
        /\ currentConfig \in StructSnapshots

\* Attributes varied
InitAttr ==
    /\ \/ \E s \in ServerChoices :
            declaration = Declaration(<<"Common">>,
                                      <<Placed("GSLBServer", "Common", s)>>, <<>>)
       \/ \E d \in DataCenterChoices :
            declaration = Declaration(<<"Common">>,
                                      <<Placed("GSLBDataCenter", "Common", d)>>, <<>>)
       \/ \E p \in ProberPoolChoices :
            declaration = Declaration(<<"Common">>,
                                      <<Placed("GSLBProberPool", "Common", p)>>, <<>>)
    /\ currentConfig \in StructSnapshots

\* Declarations without a Common tenant: empty, or with entities of some
\* classes under another tenant
InitNoCommon ==
    /\ \/ declaration = <<>>
       \/ \E present \in SUBSET (ClassKeys \cup {"GSLBMonitor"}) :
            declaration =
                Declaration(<<"T1">>,
                    (IF "GSLBDataCenter" \in present
                     THEN <<Placed("GSLBDataCenter", "T1", Plain("GSLBDataCenter", "e1"))>>
                     ELSE <<>>)
                    \o (IF "GSLBMonitor" \in present
                        THEN <<Placed("GSLBMonitor", "T1", Monitor("m1", "http"))>>
                        ELSE <<>>)
                    \o (IF "GSLBServer" \in present
                        THEN <<Placed("GSLBServer", "T1", Plain("GSLBServer", "e1"))>>
                        ELSE <<>>)
                    \o (IF "GSLBProberPool" \in present
                        THEN <<Placed("GSLBProberPool", "T1", Plain("GSLBProberPool", "e1"))>>
                        ELSE <<>>),
                    <<>>)
    /\ currentConfig \in StructSnapshots

\* no pass has run
NothingProduced ==
    [ran |-> FALSE, GSLBDataCenter |-> <<>>, GSLBServer |-> <<>>, GSLBProberPool |-> <<>>]

Pending == [status |-> "pending", err |-> "none"]
NotIssued == [status |-> "none", err |-> "none"]

Init ==
    /\ (InitLeaf \/ InitStruct \/ InitAttr \/ InitNoCommon)
    /\ pc = "start"
    /\ result = Pending
    /\ globalsOp = NotIssued
    /\ monitorOps = <<>>
    /\ txOp = NotIssued
    /\ calls = <<>>
    /\ rejections = <<>>
    /\ produced = NothingProduced
    /\ declaration0 = declaration
    /\ currentConfig0 = currentConfig
    /\ cycle = 1
    /\ prevProduced = NothingProduced

(***************************************************************************)
(* process() and the answers of the remote client.                         *)
(***************************************************************************)
Resolved == [status |-> "resolved", err |-> "none"]
Rejected(e) == [status |-> "rejected", err |-> e]

\* a .catch that logs and does not reject again
FailSwallowed(e) ==
    /\ pc' = "done"
    /\ result' = Resolved

\* the .catch of process(): log and reject with the error caught
Fail(e) ==
    /\ pc' = "done"
    /\ result' = Rejected(e)

\* the third .then of process(): the three passes and the transaction
EntityPass ==
    LET passes == EntityPasses(declaration, currentConfig)
        transactionCommandList == transactionCommands(passes)
    IN
    /\ declaration' = DeclarationAfterServers(declaration)
    /\ produced' = [ran |-> TRUE, GSLBDataCenter |-> passes[1],
                    GSLBServer |-> passes[2], GSLBProberPool |-> passes[3]]
    /\ IF Len(transactionCommandList) = 0
       THEN /\ pc' = "done"
            /\ result' = Resolved
            /\ UNCHANGED <<txOp, calls>>
       ELSE /\ pc' = "tx"
            /\ txOp' = Pending
            /\ calls' = Append(calls, [op |-> "transaction",
                                       commands |-> transactionCommandList])
            /\ UNCHANGED result

\* the second .then of process(): handleGSLBMonitor issues every upsert, and
\* Promise.all of no promise is already resolved
MonitorPass ==
    LET upserts == handleGSLBMonitor(declaration) IN
    IF upserts = <<>>
    THEN /\ EntityPass
         /\ UNCHANGED monitorOps
    ELSE /\ monitorOps' = [i \in 1..Len(upserts) |-> Pending]
         /\ calls' = calls \o upserts
         /\ pc' = "monitors"
         /\ UNCHANGED <<declaration, produced, txOp, result>>

\* process() without its guard on declaration.Common, the guard sitting in
\* handleGSLBGlobals only
ProcessUnguarded ==
    /\ pc = "start"
    /\ IF HasCommon(declaration) /\ handleGSLBGlobals(declaration) # <<>>
       THEN /\ globalsOp' = Pending
            /\ calls' = calls \o handleGSLBGlobals(declaration)
            /\ pc' = "globals"
            /\ UNCHANGED <<declaration, monitorOps, txOp, result, produced>>
       ELSE /\ MonitorPass
            /\ UNCHANGED globalsOp
    /\ UNCHANGED <<currentConfig, rejections, declaration0, currentConfig0, cycle,
                   prevProduced>>

\* process() is called
Process ==
    /\ pc = "start"
    /\ IF ~HasCommon(declaration)
       THEN /\ pc' = "done"
            /\ result' = Resolved
            /\ UNCHANGED <<declaration, globalsOp, monitorOps, txOp, calls, produced>>
       ELSE IF handleGSLBGlobals(declaration) # <<>>
       THEN /\ globalsOp' = Pending
            /\ calls' = calls \o handleGSLBGlobals(declaration)
            /\ pc' = "globals"
            /\ UNCHANGED <<declaration, monitorOps, txOp, result, produced>>
       ELSE /\ MonitorPass
            /\ UNCHANGED globalsOp
    /\ UNCHANGED <<currentConfig, rejections, declaration0, currentConfig0, cycle,
                   prevProduced>>

\* the globals modify resolves
GlobalsResolve ==
    /\ pc = "globals"
    /\ globalsOp.status = "pending"
    /\ globalsOp' = Resolved
    /\ MonitorPass
    /\ UNCHANGED <<currentConfig, rejections, declaration0, currentConfig0, cycle,
                   prevProduced>>

\* the globals modify rejects
GlobalsReject(e) ==
    /\ pc = "globals"
    /\ globalsOp.status = "pending"
    /\ globalsOp' = Rejected(e)
    /\ rejections' = Append(rejections, e)
    /\ Fail(e)
    /\ UNCHANGED <<declaration, currentConfig, monitorOps, txOp, calls, produced,
                   declaration0, currentConfig0, cycle, prevProduced>>

\* a join that is released by the first promise to resolve
AnyResolved(ops) == \E i \in 1..Len(ops) : ops[i].status = "resolved"

\* Promise.all(promises) of handleGSLBMonitor is resolved
AllResolved(ops) == \A i \in 1..Len(ops) : ops[i].status = "resolved"

\* monitor upsert i resolves
MonitorResolve(i) ==
    /\ monitorOps[i].status = "pending"
    /\ monitorOps' = [monitorOps EXCEPT ![i] = Resolved]
    /\ IF pc = "monitors" /\ AllResolved(monitorOps')
       THEN EntityPass
       ELSE UNCHANGED <<declaration, pc, result, txOp, calls, produced>>
    /\ UNCHANGED <<currentConfig, globalsOp, rejections, declaration0, currentConfig0,
                   cycle, prevProduced>>

\* monitor upsert i rejects: the first rejection settles Promise.all
MonitorReject(i, e) ==
    /\ monitorOps[i].status = "pending"
    /\ monitorOps' = [monitorOps EXCEPT ![i] = Rejected(e)]
    /\ rejections' = Append(rejections, e)
    /\ IF pc = "monitors"
       THEN Fail(e)
       ELSE UNCHANGED <<pc, result>>
    /\ UNCHANGED <<declaration, currentConfig, globalsOp, txOp, calls, produced,
                   declaration0, currentConfig0, cycle, prevProduced>>

\* the transaction resolves
TransactionResolve ==
    /\ pc = "tx"
    /\ txOp.status = "pending"
    /\ txOp' = Resolved
    /\ pc' = "done"
    /\ result' = Resolved
    /\ UNCHANGED <<declaration, currentConfig, globalsOp, monitorOps, calls, rejections,
                   produced, declaration0, currentConfig0, cycle, prevProduced>>

\* the transaction rejects
TransactionReject(e) ==
    /\ pc = "tx"
    /\ txOp.status = "pending"
    /\ txOp' = Rejected(e)
    /\ rejections' = Append(rejections, e)
    /\ Fail(e)
    /\ UNCHANGED <<declaration, currentConfig, globalsOp, monitorOps, calls, produced,
                   declaration0, currentConfig0, cycle, prevProduced>>

(***************************************************************************)
(* The next reconciliation cycle: the device has applied the commands, the *)
(* snapshot is fetched again and holds every declared named entity under   *)
(* its tenant, and a handler is constructed on the same declaration.       *)
(***************************************************************************)
Reflect(cfg, decl) ==
    [t \in Tenants |-> [k \in ClassKeys |->
        cfg[t][k] \cup {item.object["name"] :
                           item \in {x \in {forEach(decl, k)[i] :
                                               i \in 1..Len(forEach(decl, k))} :
                                        x.tenant = t /\ HasName(x.object)}}]]

NextCycle ==
    /\ pc = "done"
    /\ result.status = "resolved"
    /\ cycle = 1
    /\ cycle' = cycle + 1
    /\ currentConfig' = Reflect(currentConfig, declaration)
    /\ currentConfig0' = currentConfig'
    /\ declaration0' = declaration
    /\ prevProduced' = produced
    /\ pc' = "start"
    /\ result' = Pending
    /\ globalsOp' = NotIssued
    /\ monitorOps' = <<>>
    /\ txOp' = NotIssued
    /\ calls' = <<>>
    /\ rejections' = <<>>
    /\ produced' = NothingProduced
    /\ UNCHANGED declaration

Next ==
    \/ Process
    \/ GlobalsResolve
    \/ \E e \in Errors : GlobalsReject(e)
    \/ \E i \in 1..Len(monitorOps) : MonitorResolve(i)
    \/ \E i \in 1..Len(monitorOps), e \in Errors : MonitorReject(i, e)
    \/ TransactionResolve
    \/ \E e \in Errors : TransactionReject(e)
    \/ NextCycle

Spec == Init /\ [][Next]_vars

(***************************************************************************)
(* What the claims speak about.                                            *)
(***************************************************************************)
Collection(classKey) ==
    CASE classKey = "GSLBDataCenter" -> PATHS_GSLBDataCenter
      [] classKey = "GSLBServer" -> PATHS_GSLBServer
      [] classKey = "GSLBProberPool" -> PATHS_GSLBProberPool

\* the declared objects of a class that carry a name, as they were when
\* process() was called, with their tenants, in declaration order
NamedItems(classKey) ==
    LET items == forEach(declaration0, classKey)
        at == {i \in 1..Len(items) : "name" \in DOMAIN items[i].object
                                        /\ items[i].object["name"] # ""}
        Nth(n) == CHOOSE i \in at : Cardinality({j \in at : j < i}) = n - 1
    IN  [n \in 1..Cardinality(at) |-> items[Nth(n)]]

\* the positions in calls of the operations of a kind
CallsOf(op) == {j \in 1..Len(calls) : calls[j].op = op}

\* the commands the passes produced, summed over the classes
ProducedCount ==
    Len(produced["GSLBDataCenter"]) + Len(produced["GSLBServer"])
        + Len(produced["GSLBProberPool"])

\* the paths a command of a class can have
PathsOf(classKey) ==
    {Collection(classKey)} \cup
    {Collection(classKey) \o "/~" \o t \o "~" \o EntityNames[n] :
        t \in Tenants, n \in 1..Len(EntityNames)}

DataCenterPaths == PathsOf("GSLBDataCenter")
ServerPaths == PathsOf("GSLBServer")
ProberPoolPaths == PathsOf("GSLBProberPool")

\* data centers first, servers second, prober pools last
Rank(command) ==
    CASE command.path \in DataCenterPaths -> 1
      [] command.path \in ServerPaths -> 2
      [] command.path \in ProberPoolPaths -> 3

(***************************************************************************)
(* C1.  For every named data center, server and prober pool declared under *)
(* a tenant T, the command has method modify and path                      *)
(* <collection>/~T~<name> if and only if the snapshot holds an entity of   *)
(* that class under the same (tenant, name); otherwise it has method       *)
(* create and the collection as its path.                                  *)
(***************************************************************************)
C1_MethodByTenantAndName ==
    \A k \in ClassKeys : \A i \in 1..Len(produced[k]) :
        LET item == NamedItems(k)[i]
            name == item.object["name"]
            command == produced[k][i]
        IN  IF name \in currentConfig0[item.tenant][k]
            THEN /\ command.method = "modify"
                 /\ command.path = Collection(k) \o "/~" \o item.tenant \o "~" \o name
            ELSE /\ command.method = "create"
                 /\ command.path = Collection(k)

(***************************************************************************)
(* C2.  Remote operations respect the dependency order: when the           *)
(* transaction is submitted every declared monitor upsert has been issued  *)
(* and has resolved, and in the submitted list every data-center command   *)
(* precedes every server command, which precedes every prober-pool         *)
(* command.                                                                *)
(***************************************************************************)
C2_DependencyOrder ==
    \A j \in CallsOf("transaction") :
        LET commands == calls[j].commands IN
        /\ Len(monitorOps) = Len(NamedItems("GSLBMonitor"))
        /\ \A i \in 1..Len(monitorOps) : monitorOps[i].status = "resolved"
        /\ Cardinality(CallsOf("createOrModify")) = Len(monitorOps)
        /\ \A m \in CallsOf("createOrModify") : m < j
        /\ LET ranks == [a \in 1..Len(commands) |-> Rank(commands[a])]
           IN  \A a, b \in 1..Len(commands) : a < b => ranks[a] <= ranks[b]

\* a transaction carrying a command of each class was submitted after two
\* monitor upserts
C2_Witness ==
    /\ pc = "tx"
    /\ Len(monitorOps) >= 2
    /\ \E j \in CallsOf("transaction") :
        {Rank(calls[j].commands[a]) : a \in 1..Len(calls[j].commands)} = {1, 2, 3}

(***************************************************************************)
(* C3.  bigIp.transaction is called at most once in a run; it is called    *)
(* exactly when the three passes together produced at least one command,   *)
(* and then it receives every produced command exactly once; when no       *)
(* command was produced no transaction is submitted and process()          *)
(* resolves.                                                               *)
(***************************************************************************)
C3_OneTransaction ==
    /\ Cardinality(CallsOf("transaction")) <= 1
    /\ ~produced.ran => CallsOf("transaction") = {}
    /\ produced.ran =>
        /\ (CallsOf("transaction") # {}) <=> (ProducedCount > 0)
        /\ ProducedCount = 0 => pc = "done" /\ result.status = "resolved"
        /\ \A j \in CallsOf("transaction") :
            LET commands == calls[j].commands IN
            /\ Len(commands) = ProducedCount
            /\ \A k \in ClassKeys : \A i \in 1..Len(produced[k]) :
                Cardinality({a \in 1..Len(commands) : commands[a] = produced[k][i]}) = 1

\* a transaction of four or more commands, two of them of one class
C3_Witness ==
    /\ CallsOf("transaction") # {}
    /\ ProducedCount >= 4
    /\ Len(produced["GSLBServer"]) >= 2

\* the passes ran and produced nothing
C3_WitnessEmpty ==
    /\ produced.ran
    /\ ProducedCount = 0
    /\ pc = "done"

\* the remote operations of this run that have rejected, with their errors
RejectedOps ==
    {op \in {globalsOp, txOp} \cup {monitorOps[i] : i \in 1..Len(monitorOps)} :
        op.status = "rejected"}

\* GSLBGlobals.general as declared under Common, when process() was called
DeclaresGeneral ==
    /\ HasCommon(declaration0)
    /\ "GSLBGlobals" \in DOMAIN Common(declaration0)
    /\ "general" \in DOMAIN Common(declaration0)["GSLBGlobals"]

DeclaredGeneral == Common(declaration0)["GSLBGlobals"]["general"]

(***************************************************************************)
(* C4.  If the globals modify, any monitor upsert or the transaction       *)
(* rejects with error e, the promise of process() rejects with that same   *)
(* error e; if none of them rejects, process() resolves.                   *)
(***************************************************************************)
C4_RejectsWithEveryError ==
    /\ \A op \in RejectedOps : result.status = "rejected" /\ result.err = op.err
    /\ RejectedOps = {} => result.status # "rejected"
    /\ RejectedOps = {} /\ pc = "done" => result.status = "resolved"

(***************************************************************************)
(* C4 as amended.  process() rejects exactly when the globals modify, a    *)
(* monitor upsert or the transaction rejects, and then with the error of   *)
(* the operation that rejected first: a monitor upsert that rejects later  *)
(* does not change the outcome.  If none rejects, process() resolves.      *)
(***************************************************************************)
C4_RejectsWithFirstError ==
    /\ rejections # <<>> => result.status = "rejected" /\ result.err = rejections[1]
    /\ rejections = <<>> => result.status # "rejected"
    /\ rejections = <<>> /\ pc = "done" => result.status = "resolved"
    /\ Len(rejections) =
           (IF globalsOp.status = "rejected" THEN 1 ELSE 0)
           + Cardinality({i \in 1..Len(monitorOps) : monitorOps[i].status = "rejected"})
           + (IF txOp.status = "rejected" THEN 1 ELSE 0)

\* two monitor upserts rejected with different errors
C4_Witness ==
    /\ Len(rejections) = 2
    /\ rejections[1] # rejections[2]
    /\ result.status = "rejected"

\* the transaction rejected
C4_WitnessTransaction ==
    /\ txOp.status = "rejected"
    /\ result.status = "rejected"

(***************************************************************************)
(* C5.  Idempotence: re-running the entity passes with the same            *)
(* declaration against a snapshot that reflects the prior cycle's output   *)
(* produces only modify commands, each with the body produced for that     *)
(* entity in the prior cycle.                                              *)
(***************************************************************************)
C5_Idempotence ==
    cycle = 2 /\ produced.ran /\ prevProduced.ran =>
        \A k \in ClassKeys :
            /\ Len(produced[k]) = Len(prevProduced[k])
            /\ \A i \in 1..Len(produced[k]) :
                /\ produced[k][i].method = "modify"
                /\ produced[k][i].body = prevProduced[k][i].body

(***************************************************************************)
(* C6.  process() leaves its inputs unchanged: after a run the snapshot    *)
(* and the declaration, every nested attribute included, equal their       *)
(* values before the run.                                                  *)
(***************************************************************************)
C6_InputsUnchanged ==
    pc = "done" => declaration = declaration0 /\ currentConfig = currentConfig0

C7_WitnessFalse ==
    /\ DeclaresGeneral
    /\ "synchronizationEnabled" \in DOMAIN DeclaredGeneral
    /\ ~DeclaredGeneral["synchronizationEnabled"]
    /\ CallsOf("modify") # {}

\* the object lacks a remark
LacksRemark(o) == "remark" \notin DOMAIN o

\* the body carries the description "none"
DescribedNone(body) == "description" \in DOMAIN body /\ body["description"] = "none"

\* the named children of an object that lack a remark get "none" in the body
ChildrenDescribedNone(object, body, declaredKey, bodyKey) ==
    \A c \in 1..Len(object[declaredKey]) :
        LacksRemark(object[declaredKey][c]) => DescribedNone(body[bodyKey][c])

(***************************************************************************)
(* C8.  Default substitution: for every entity the handler processes       *)
(* (data center, monitor, server with its virtual servers and devices,     *)
(* prober pool with its members), when the declared entity lacks remark    *)
(* the request body built for it carries description "none".               *)
(***************************************************************************)
C8_DescriptionDefaultsToNone ==
    /\ \A k \in ClassKeys : \A i \in 1..Len(produced[k]) :
        LET object == NamedItems(k)[i].object
            body == produced[k][i].body
        IN  /\ LacksRemark(object) => DescribedNone(body)
            /\ k = "GSLBServer" =>
                /\ ChildrenDescribedNone(object, body, "devices", "devices")
                /\ ChildrenDescribedNone(object, body, "virtualServers", "virtualServers")
            /\ k = "GSLBProberPool" =>
                ChildrenDescribedNone(object, body, "members", "members")
    /\ \A j \in CallsOf("createOrModify") :
        \* the upserts are the first calls after the globals modify, if any
        LET first == IF CallsOf("modify") = {} THEN 1 ELSE 2
            object == NamedItems("GSLBMonitor")[j - first + 1].object
        IN  LacksRemark(object) => DescribedNone(calls[j].body)

\* the leaf-setting operations the declaration asks for
DeclaredLeafCount ==
    (IF DeclaresGeneral THEN 1 ELSE 0) + Len(NamedItems("GSLBMonitor"))

\* the leaf-setting operations issued
IssuedLeafCount ==
    Cardinality(CallsOf("modify")) + Cardinality(CallsOf("createOrModify"))

\* a leaf-setting operation has rejected
LeafRejected ==
    \/ globalsOp.status = "rejected"
    \/ \E i \in 1..Len(monitorOps) : monitorOps[i].status = "rejected"

(***************************************************************************)
(* C9.  Leaf-setting operations (the globals modify and the monitor        *)
(* upserts) run concurrently and independently: the rejection of one never *)
(* prevents a sibling leaf-setting operation of the same cycle from being  *)
(* issued.                                                                 *)
(***************************************************************************)
C9_LeafOperationsIndependent ==
    LeafRejected => IssuedLeafCount = DeclaredLeafCount

(***************************************************************************)
(* C9 as amended.  The monitor upserts are issued together, once the       *)
(* globals modify (if any) has resolved: the rejection of one monitor      *)
(* upsert never prevents a sibling monitor upsert from being issued, but a *)
(* rejected globals modify prevents every monitor upsert of the cycle.     *)
(***************************************************************************)
C9_MonitorsIndependentAfterGlobals ==
    /\ (\E i \in 1..Len(monitorOps) : monitorOps[i].status = "rejected") =>
        /\ Cardinality(CallsOf("createOrModify")) = Len(NamedItems("GSLBMonitor"))
        /\ Len(monitorOps) = Len(NamedItems("GSLBMonitor"))
    /\ CallsOf("createOrModify") # {} =>
        /\ Cardinality(CallsOf("createOrModify")) = Len(NamedItems("GSLBMonitor"))
        /\ globalsOp.status \in {"none", "resolved"}
    /\ globalsOp.status = "rejected" => CallsOf("createOrModify") = {}
    /\ globalsOp.status = "pending" => CallsOf("createOrModify") = {}

\* one of two issued monitor upserts has rejected, the other is still pending
C9_Witness ==
    /\ Len(monitorOps) >= 2
    /\ Cardinality(CallsOf("createOrModify")) >= 2
    /\ \E i, j \in 1..Len(monitorOps) :
        monitorOps[i].status = "rejected" /\ monitorOps[j].status = "pending"

\* the globals modify has rejected while monitors are declared
C9_WitnessGlobals ==
    /\ globalsOp.status = "rejected"
    /\ Len(NamedItems("GSLBMonitor")) >= 1

(***************************************************************************)
(* C10.  If the globals modify or any monitor upsert rejects during a run  *)
(* of process(), bigIp.transaction is never called in that run, whatever   *)
(* entities are declared and in whatever order the monitor upserts         *)
(* complete.                                                               *)
(***************************************************************************)
C10_NoTransactionAfterLeafRejection ==
    LeafRejected => CallsOf("transaction") = {} /\ txOp.status = "none"

\* entities are declared, one monitor upsert resolved and then another rejected
C10_Witness ==
    /\ Len(NamedItems("GSLBDataCenter")) >= 1
    /\ Len(NamedItems("GSLBServer")) >= 1
    /\ \E i, j \in 1..Len(monitorOps) :
        monitorOps[i].status = "resolved" /\ monitorOps[j].status = "rejected"
    /\ pc = "done"

\* the declaration process() was called on has no Common entry
NoCommonEntry == \A i \in 1..Len(declaration0) : declaration0[i].tenant # "Common"

(***************************************************************************)
(* C11.  When the declaration has no Common entry, process() resolves      *)
(* without issuing any remote operation (no modify, no createOrModify, no  *)
(* transaction), even if GSLB data centers, monitors, servers or prober    *)
(* pools are declared under other tenants.                                 *)
(***************************************************************************)
C11_NoCommonNoOperation ==
    NoCommonEntry =>
        /\ calls = <<>>
        /\ globalsOp.status = "none"
        /\ monitorOps = <<>>
        /\ txOp.status = "none"
        /\ ~produced.ran
        /\ result.status # "rejected"
        /\ pc # "start" => pc = "done" /\ result.status = "resolved"

\* process() has resolved on a declaration that has no Common entry and
\* declares an entity of each of the four classes under another tenant
C11_Witness ==
    /\ NoCommonEntry
    /\ pc = "done"
    /\ result.status = "resolved"
    /\ \A k \in ClassKeys \cup {"GSLBMonitor"} : Len(NamedItems(k)) >= 1

====
